---------------------------- MODULE Spec2Model ----------------------------
(***************************************************************************)
(* timeterm: a countdown timer.  main (src/src/main.rs) parses a duration  *)
(* from argv (src/src/cli.rs), installs a SIGINT handler                   *)
(* (src/src/signal.rs) and polls an atomic flag and a monotonic clock      *)
(* every 100 ms until one of them ends the loop.                           *)
(*                                                                         *)
(* Strings are sequences of one-character strings.  A u32 (and the wider   *)
(* intermediate of a u32 operation) is a record [hi, lo] denoting          *)
(* hi * 2^16 + lo with 0 <= lo < 2^16; it is a u32 iff hi < 2^16.  This    *)
(* keeps the full 32-bit width of the program's arithmetic.                *)
(***************************************************************************)
EXTENDS Integers, Sequences, FiniteSets, TLC

VARIABLES
    args,            \* std::env::args() of the process (main.rs:12)
    overflow_checks, \* build profile: TRUE = overflow checks on (debug), FALSE = off (release)
    pc,              \* position of the main thread in main()
    parsed,          \* the value cli::parse_args returned (main.rs:13), Unset before the call
    duration,        \* main.rs:13 `duration`: Unset until bound, then Some(u32)
    handler,         \* disposition of SIGINT: "SIG_DFL" or "sigint_handler"
    SHOULD_EXIT,     \* signal.rs:5 static AtomicBool
    start,           \* main.rs:18 `start`, in sleep quanta
    now,             \* the monotonic clock, in sleep quanta
    exit_status,     \* <<>> while no exit status exists, else <<code>>
    sigints,         \* history: SIGINTs delivered so far
    handler_runs,    \* history: runs of sigint_handler so far
    sleeps_since_set,\* history: sleeps begun by the loop after the flag became true
    last_load,       \* history: result of the latest should_exit() call, <<>> if none
    registrations,   \* history: the flag's value at each call of register_sigint_handler so far
    entry_flag,      \* history: the flag's value when the loop was entered, <<>> before
    slept            \* history: a thread::sleep of the loop has completed

vars == <<args, overflow_checks, pc, parsed, duration, handler, SHOULD_EXIT, start, now,
          exit_status, sigints, handler_runs, sleeps_since_set, last_load,
          registrations, entry_flag, slept>>

----------------------------------------------------------------------------
(* Bounds of the model *)

\* The clock stops advancing at MaxTime quanta.
MaxTime == 25
\* A sleep of one quantum may last up to MaxOversleep quanta.
MaxOversleep == 2
\* At most MaxSignals SIGINTs are delivered to the process.
MaxSignals == 2
\* A client of the signal module calls register_sigint_handler at most
\* MaxRegistrations times.
MaxRegistrations == 4

----------------------------------------------------------------------------
(* Program constants *)

\* cli.rs:28 Some(600)
ParseArgsDefault == 600
\* main.rs:13 unwrap_or(600)
UnwrapOrDefault == 600
\* cli.rs:13,19 mins * 60
SecsPerMin == 60
\* cli.rs:19 hrs * 3600
SecsPerHour == 3600
\* main.rs:24 Duration::from_millis(100)
QuantumMs == 100
\* Duration::as_secs: milliseconds in a whole second
MsPerSec == 1000
\* radix of str::parse::<u32>
Radix == 10

----------------------------------------------------------------------------
(* u32 arithmetic *)

Base == 2^16

Norm(h, l) == [hi |-> h + (l \div Base), lo |-> l % Base]

\* A small literal as a number.
Lit(n) == Norm(0, n)

WideAdd(a, b) == Norm(a.hi + b.hi, a.lo + b.lo)

\* a * k for a small factor k (k <= 3600).
WideMul(a, k) == Norm(a.hi * k, a.lo * k)

FitsU32(a) == a.hi < Base

\* u32::MAX = 4294967295
U32Max == [hi |-> Base - 1, lo |-> Base - 1]

WrapU32(a) == [hi |-> a.hi % Base, lo |-> a.lo]

\* a <= b on numbers
Leq(a, b) == a.hi < b.hi \/ (a.hi = b.hi /\ a.lo <= b.lo)

\* Option<u32>, extended with the outcome "the thread panicked".
Some(v) == [kind |-> "Some", val |-> v]
None == [kind |-> "None", val |-> Lit(0)]
Panic == [kind |-> "Panic", val |-> Lit(0)]
\* A binding that has not been made yet.
Unset == [kind |-> "Unset", val |-> Lit(0)]

\* The result of a u32 operation whose mathematical value is r: with overflow
\* checks an overflow panics ("attempt to multiply/add with overflow"),
\* without them the value wraps modulo 2^32.
OverflowResult(r, oc) ==
    IF FitsU32(r) THEN Some(r)
    ELSE IF oc THEN Panic
    ELSE Some(WrapU32(r))

\* `a * k` on u32 operands (a an evaluated operand or a panic).
MulU32(a, k, oc) ==
    IF a.kind = "Panic" THEN Panic
    ELSE OverflowResult(WideMul(a.val, k), oc)

\* `a + b` on u32 operands, evaluated left to right.
AddU32(a, b, oc) ==
    IF a.kind = "Panic" \/ b.kind = "Panic" THEN Panic
    ELSE OverflowResult(WideAdd(a.val, b.val), oc)

----------------------------------------------------------------------------
(* str::parse::<u32>, str::contains(':'), str::split(':') *)

Digits == {"0", "1", "2", "3", "4", "5", "6", "7", "8", "9"}

DigitVal(c) ==
    CASE c = "0" -> 0 [] c = "1" -> 1 [] c = "2" -> 2 [] c = "3" -> 3
      [] c = "4" -> 4 [] c = "5" -> 5 [] c = "6" -> 6 [] c = "7" -> 7
      [] c = "8" -> 8 [] c = "9" -> 9

\* The digit loop of u32::from_str_radix: checked_mul by the radix, then
\* checked_add of the digit; a non-digit or an overflow is an Err (None after
\* .ok()).
RECURSIVE ParseDigits(_, _)
ParseDigits(digits, result) ==
    IF digits = <<>> THEN Some(result)
    ELSE IF Head(digits) \notin Digits THEN None
    ELSE LET mul == WideMul(result, Radix)
             sum == WideAdd(mul, Lit(DigitVal(Head(digits))))
         IN  IF ~FitsU32(mul) \/ ~FitsU32(sum) THEN None
             ELSE ParseDigits(Tail(digits), sum)

\* Variant of ParseU32: the field is parsed as an i32 and cast, so values above
\* i32::MAX are rejected.
ParseViaI32(src) ==
    LET r == IF src = <<>> THEN None
             ELSE IF src = <<"+">> \/ src = <<"-">> THEN None
             ELSE IF Head(src) = "+" THEN ParseDigits(Tail(src), Lit(0))
             ELSE ParseDigits(src, Lit(0))
    IN  IF r.kind = "Some" /\ r.val.hi >= Base \div 2 THEN None ELSE r

\* s.parse::<u32>().ok(): empty is an Err, a lone sign is an Err, one leading
\* '+' is skipped, a leading '-' is not accepted by an unsigned type.
ParseU32(src) ==
    IF src = <<>> THEN None
    ELSE IF src = <<"+">> \/ src = <<"-">> THEN None
    ELSE IF Head(src) = "+" THEN ParseDigits(Tail(src), Lit(0))
    ELSE ParseDigits(src, Lit(0))

Contains(s, c) == \E i \in 1..Len(s) : s[i] = c

\* s.split(':').collect(): the fields between the colons, empty ones included.
RECURSIVE Split(_)
Split(s) ==
    IF ~Contains(s, ":") THEN <<s>>
    ELSE LET i == CHOOSE j \in 1..Len(s) :
                      s[j] = ":" /\ \A k \in 1..(j - 1) : s[k] # ":"
         IN  <<SubSeq(s, 1, i - 1)>> \o Split(SubSeq(s, i + 1, Len(s)))

----------------------------------------------------------------------------
(* src/src/cli.rs *)

\* Variant of MinsSecs: a seconds field of 60 or more is rejected.
MinsSecsClockRange(time_units, oc) ==
    LET mins == ParseU32(time_units[1])
        secs == ParseU32(time_units[2])
    IN  IF mins.kind = "None" THEN None
        ELSE IF secs.kind = "None" THEN None
        ELSE IF Leq(Lit(SecsPerMin), secs.val) THEN None
        ELSE AddU32(MulU32(mins, SecsPerMin, oc), secs, oc)

\* cli.rs:10-14, the arm for two fields.
MinsSecs(time_units, oc) ==
    LET mins == ParseU32(time_units[1])
        secs == ParseU32(time_units[2])
    IN  IF mins.kind = "None" THEN None
        ELSE IF secs.kind = "None" THEN None
        ELSE AddU32(MulU32(mins, SecsPerMin, oc), secs, oc)

\* cli.rs:15-20, the arm for three fields.
HrsMinsSecs(time_units, oc) ==
    LET hrs == ParseU32(time_units[1])
        mins == ParseU32(time_units[2])
        secs == ParseU32(time_units[3])
    IN  IF hrs.kind = "None" THEN None
        ELSE IF mins.kind = "None" THEN None
        ELSE IF secs.kind = "None" THEN None
        ELSE AddU32(AddU32(MulU32(hrs, SecsPerHour, oc),
                           MulU32(mins, SecsPerMin, oc), oc), secs, oc)

parse_time_fmt(time_str, oc) ==
    IF ~Contains(time_str, ":") THEN ParseU32(time_str)
    ELSE LET time_units == Split(time_str)
         IN  CASE Len(time_units) = 2 -> MinsSecs(time_units, oc)
               [] Len(time_units) = 3 -> HrsMinsSecs(time_units, oc)
               [] OTHER -> None

\* Variant of parse_args: the time specification is taken from the last
\* argument, whichever it is.
parse_args_last(a, oc) ==
    CASE Len(a) \in {1, 2} -> parse_time_fmt(a[Len(a)], oc)
      [] OTHER -> None

parse_args(a, oc) ==
    CASE Len(a) = 1 -> Some(Lit(ParseArgsDefault))
      [] Len(a) = 2 -> parse_time_fmt(a[2], oc)
      [] OTHER -> None

\* Option::unwrap_or
unwrap_or(opt, default) == IF opt.kind = "None" THEN Some(default) ELSE opt

----------------------------------------------------------------------------
(* Argument lists the process is started with *)

\* Values of argv[0].
ProgNames ==
    { <<"t", "i", "m", "e", "t", "e", "r", "m">>,
      <<>>,
      <<"3", "0">>,
      <<"1", ":", "3", "6">> }

\* Colon-free time specifications.
SecsSpecs ==
    { <<"0">>,
      <<"1">>,
      <<"2">>,
      <<"3", "0">>,
      <<"0", "3", "0">>,
      <<"6", "9", "4", "2", "0">>,
      <<"4", "2", "9", "4", "9", "6", "7", "2", "9", "5">>,
      <<"4", "2", "9", "4", "9", "6", "7", "2", "9", "6">>,
      <<"0", "4", "2", "9", "4", "9", "6", "7", "2", "9", "5">>,
      <<"9", "9", "9", "9", "9", "9", "9", "9", "9", "9", "9">>,
      <<"+", "3", "0">>,
      <<"-", "3", "0">>,
      <<"+">>,
      <<"-">>,
      <<"+", "0">>,
      <<"+", "+", "1">>,
      <<"1", ".", "5">>,
      <<"a", "b", "c">>,
      <<>>,
      <<" ", "1">>,
      <<"1", " ">> }

\* First field of an mm:ss specification.
MinsFields ==
    { <<"0">>,
      <<"1">>,
      <<"1", "0", "0">>,
      <<"0", "0">>,
      <<"7", "1", "5", "8", "2", "7", "8", "8">>,
      <<"7", "1", "5", "8", "2", "7", "8", "9">>,
      <<"4", "2", "9", "4", "9", "6", "7", "2", "9", "5">>,
      <<"4", "2", "9", "4", "9", "6", "7", "2", "9", "6">>,
      <<"+", "1">>,
      <<>>,
      <<"a">> }

\* Second field of an mm:ss specification.
SecsFields ==
    { <<"0">>,
      <<"3", "6">>,
      <<"0", "1">>,
      <<"1", "5">>,
      <<"1", "6">>,
      <<"9", "0">>,
      <<"4", "2", "9", "4", "9", "6", "7", "2", "9", "5">>,
      <<"-", "1">>,
      <<"1", ".", "5">>,
      <<>> }

\* Fields of an hh:mm:ss specification: hours, minutes, seconds.
HField ==
    { <<"0">>,
      <<"1">>,
      <<"2">>,
      <<"1", "1", "9", "3", "0", "4", "6">>,
      <<"1", "1", "9", "3", "0", "4", "7">>,
      <<"+", "1">>,
      <<>> }

\* 
MField ==
    { <<"0", "0">>,
      <<"3", "0">>,
      <<"7", "5">>,
      <<"1", "5">>,
      <<"2", "8">>,
      <<"2", "9">>,
      <<"7", "1", "5", "8", "2", "7", "8", "9">> }

\* 
SField ==
    { <<"0", "0">>,
      <<"4", "5">>,
      <<"3", "0">>,
      <<"1", "5">>,
      <<"1", "6">>,
      <<"a">> }

\* Specifications with three or more colons.
ManyColonSpecs ==
    { <<"1", ":", "2", ":", "3", ":", "4">>,
      <<":", ":", ":">>,
      <<"0", ":", "0", ":", "0", ":", "0", ":", "0">> }

Colon == <<":">>

TimeSpecs ==
    SecsSpecs
    \cup { m \o Colon \o s : m \in MinsFields, s \in SecsFields }
    \cup { h \o Colon \o m \o Colon \o s : h \in HField, m \in MField, s \in SField }
    \cup ManyColonSpecs

Timeterm == <<"t", "i", "m", "e", "t", "e", "r", "m">>

ArgLists ==
    { <<>> }
    \cup { <<p>> : p \in ProgNames }
    \cup { <<Timeterm, t>> : t \in TimeSpecs }
    \cup { <<Timeterm, <<"a">>, <<"b">> >>, <<Timeterm, <<"3", "0">>, <<"1">> >> }

----------------------------------------------------------------------------
(* src/src/signal.rs *)

\* Variant of StoredByHandler: the handler toggles the flag.
ToggledByHandler == ~SHOULD_EXIT

\* signal.rs:8 SHOULD_EXIT.store(true, Ordering::Relaxed)
StoredByHandler == TRUE

\* signal.rs:17-19 SHOULD_EXIT.load(Ordering::Relaxed)
should_exit == SHOULD_EXIT

\* Variant of Installed: the registration leaves SIGINT at its default.
NotInstalled == "SIG_DFL"

\* signal.rs:13 the disposition libc::signal installs
Installed == "sigint_handler"

----------------------------------------------------------------------------
(* src/src/main.rs *)

\* The program reads the clock at Instant::now() (main.rs:18) and at
\* start.elapsed() (main.rs:21) only, and a sleep lies between any two
\* reads, so the time that passes anywhere between two reads is accounted to
\* the sleep between them: a whole number of quanta, at least one.

Alive == pc \notin {"exited", "killed", "panicked"}

\* start.elapsed().as_secs(): whole seconds since `start`
ElapsedSecs == ((now - start) * QuantumMs) \div MsPerSec

\* Variant of TimeUp: the elapsed seconds are rounded up.
TimeUpRoundedUp == Leq(duration.val, Lit(ElapsedSecs + 1))

\* Variant of TimeUp: the comparison is strict.
TimeUpStrict == ~Leq(Lit(ElapsedSecs), duration.val)

\* main.rs:21 start.elapsed().as_secs() >= duration as u64
TimeUp == Leq(duration.val, Lit(ElapsedSecs))

\* Variant of ExitOnReturn: an interrupted run reports 128 + SIGINT.
ExitOnInterrupt == IF SHOULD_EXIT THEN <<130>> ELSE <<0>>

\* The status main's return gives the process.
ExitOnReturn == <<0>>

\* The status of a process whose main thread panicked.
ExitOnPanic == <<101>>

InitWith(lists, entry) ==
    /\ args \in lists
    /\ overflow_checks \in BOOLEAN
    /\ pc = entry
    /\ parsed = Unset
    /\ duration = Unset
    /\ handler = "SIG_DFL"
    /\ SHOULD_EXIT = FALSE
    /\ start = 0
    /\ now = 0
    /\ exit_status = <<>>
    /\ sigints = 0
    /\ handler_runs = 0
    /\ sleeps_since_set = 0
    /\ last_load = <<>>
    /\ registrations = <<>>
    /\ entry_flag = <<>>
    /\ slept = FALSE

\* The process as the operating system starts it.
Init == InitWith(ArgLists, "greet")

\* main.rs:9 println!
Greet ==
    /\ pc = "greet"
    /\ pc' = "parse"
    /\ UNCHANGED <<registrations, entry_flag, slept,
                   args, overflow_checks, parsed, duration, handler, SHOULD_EXIT, start, now,
                   exit_status, sigints, handler_runs, sleeps_since_set, last_load>>

\* main.rs:12-13 parse_args(args).unwrap_or(600); an overflow panic in
\* parse_time_fmt unwinds out of main.
ParseArgs ==
    /\ pc = "parse"
    /\ LET result == parse_args(args, overflow_checks)
       IN  /\ parsed' = result
           /\ IF result.kind = "Panic"
              THEN /\ pc' = "panicked"
                   /\ exit_status' = ExitOnPanic
                   /\ UNCHANGED duration
              ELSE /\ pc' = "register"
                   /\ duration' = unwrap_or(result, Lit(UnwrapOrDefault))
                   /\ UNCHANGED exit_status
    /\ UNCHANGED <<registrations, entry_flag, slept,
                   args, overflow_checks, handler, SHOULD_EXIT, start, now,
                   sigints, handler_runs, sleeps_since_set, last_load>>

\* Variant of Registration: registering also clears the flag.
RegistrationClearsFlag ==
    /\ handler' = Installed
    /\ SHOULD_EXIT' = FALSE
    /\ registrations' = Append(registrations, SHOULD_EXIT)

\* signal.rs:11-15 the body of register_sigint_handler: libc::signal replaces
\* the disposition of SIGINT, whatever it was, and touches nothing else.
Registration ==
    /\ handler' = Installed
    /\ registrations' = Append(registrations, SHOULD_EXIT)
    /\ UNCHANGED SHOULD_EXIT

\* main.rs:16 signal::register_sigint_handler()
register_sigint_handler ==
    /\ pc = "register"
    /\ Registration
    /\ pc' = "start"
    /\ UNCHANGED <<entry_flag, slept, args, overflow_checks, parsed, duration, start, now,
                   exit_status, sigints, handler_runs, sleeps_since_set, last_load>>

\* Variant of Start: the loop sleeps before its first check.
StartSleepsFirst ==
    /\ pc = "start"
    /\ start' = now
    /\ entry_flag' = <<SHOULD_EXIT>>
    /\ pc' = "sleep"
    /\ UNCHANGED <<registrations, slept,
                   args, overflow_checks, parsed, duration, handler, SHOULD_EXIT, now,
                   exit_status, sigints, handler_runs, sleeps_since_set, last_load>>

\* main.rs:18 let start = Instant::now()
Start ==
    /\ pc = "start"
    /\ start' = now
    /\ entry_flag' = <<SHOULD_EXIT>>
    /\ pc' = "check"
    /\ UNCHANGED <<registrations, slept,
                   args, overflow_checks, parsed, duration, handler, SHOULD_EXIT, now,
                   exit_status, sigints, handler_runs, sleeps_since_set, last_load>>

\* Variant of CheckFlag: the loop reads the flag but does not act on it.
CheckFlagIgnored ==
    /\ pc = "check"
    /\ last_load' = <<should_exit>>
    /\ pc' = "check_time"
    /\ UNCHANGED <<registrations, entry_flag, slept,
                   args, overflow_checks, parsed, duration, handler, SHOULD_EXIT, start, now,
                   exit_status, sigints, handler_runs, sleeps_since_set>>

\* main.rs:21, left operand of ||: signal::should_exit()
CheckFlag ==
    /\ pc = "check"
    /\ last_load' = <<should_exit>>
    /\ pc' = IF should_exit THEN "stopped" ELSE "check_time"
    /\ UNCHANGED <<registrations, entry_flag, slept,
                   args, overflow_checks, parsed, duration, handler, SHOULD_EXIT, start, now,
                   exit_status, sigints, handler_runs, sleeps_since_set>>

\* main.rs:21, right operand of ||, evaluated only when the left is false
CheckTime ==
    /\ pc = "check_time"
    /\ pc' = IF TimeUp THEN "stopped" ELSE "sleep"
    /\ UNCHANGED <<registrations, entry_flag, slept,
                   args, overflow_checks, parsed, duration, handler, SHOULD_EXIT, start, now,
                   exit_status, sigints, handler_runs, sleeps_since_set, last_load>>

\* main.rs:24 thread::sleep(Duration::from_millis(100)): at least one
\* quantum passes (std resumes the sleep when a signal interrupts it), and
\* the thread may be resumed late.
Sleep ==
    /\ pc = "sleep"
    /\ \E d \in 1..MaxOversleep :
          /\ now + d <= MaxTime
          /\ now' = now + d
    /\ sleeps_since_set' = IF SHOULD_EXIT THEN sleeps_since_set + 1 ELSE sleeps_since_set
    /\ slept' = TRUE
    /\ pc' = "check"
    /\ UNCHANGED <<registrations, entry_flag,
                   args, overflow_checks, parsed, duration, handler, SHOULD_EXIT, start,
                   exit_status, sigints, handler_runs, last_load>>

\* main.rs:22,26 break, then main returns
Exit ==
    /\ pc = "stopped"
    /\ pc' = "exited"
    /\ exit_status' = ExitOnReturn
    /\ UNCHANGED <<registrations, entry_flag, slept,
                   args, overflow_checks, parsed, duration, handler, SHOULD_EXIT, start, now,
                   sigints, handler_runs, sleeps_since_set, last_load>>

\* A SIGINT delivered while the disposition is the default: the process is
\* terminated by the signal and has no exit code.
SigintDefault ==
    /\ Alive
    /\ sigints < MaxSignals
    /\ handler = "SIG_DFL"
    /\ sigints' = sigints + 1
    /\ pc' = "killed"
    /\ UNCHANGED <<registrations, entry_flag, slept,
                   args, overflow_checks, parsed, duration, handler, SHOULD_EXIT, start, now,
                   exit_status, handler_runs, sleeps_since_set, last_load>>

\* Variant of sigint_handler: the handler ends the process itself.
sigint_handler_exits ==
    /\ Alive
    /\ sigints < MaxSignals
    /\ handler = Installed
    /\ sigints' = sigints + 1
    /\ handler_runs' = handler_runs + 1
    /\ SHOULD_EXIT' = StoredByHandler
    /\ pc' = "exited"
    /\ exit_status' = <<130>>
    /\ UNCHANGED <<registrations, entry_flag, slept,
                   args, overflow_checks, parsed, duration, handler, start, now,
                   sleeps_since_set, last_load>>

\* signal.rs:7-9: a SIGINT delivered while sigint_handler is installed
\* preempts the main thread between two of its steps and runs the handler.
\* libc::signal has BSD semantics on the supported platforms (glibc, musl,
\* macOS): the handler stays installed after a delivery.
sigint_handler ==
    /\ Alive
    /\ sigints < MaxSignals
    /\ handler = Installed
    /\ sigints' = sigints + 1
    /\ handler_runs' = handler_runs + 1
    /\ SHOULD_EXIT' = StoredByHandler
    /\ UNCHANGED <<registrations, entry_flag, slept,
                   args, overflow_checks, pc, parsed, duration, handler, start, now,
                   exit_status, sleeps_since_set, last_load>>

Next ==
    \/ Greet
    \/ ParseArgs
    \/ register_sigint_handler
    \/ Start
    \/ CheckFlag
    \/ CheckTime
    \/ Sleep
    \/ Exit
    \/ SigintDefault
    \/ sigint_handler

Spec == Init /\ [][Next]_vars

----------------------------------------------------------------------------
(* The signal module used by a client that calls its functions in any order,
   as the unit tests of signal.rs do *)

SignalInit == InitWith({<<Timeterm>>}, "client")

\* A call of signal::register_sigint_handler()
CallRegister ==
    /\ pc = "client"
    /\ Len(registrations) < MaxRegistrations
    /\ Registration
    /\ UNCHANGED <<entry_flag, slept, pc,
                   args, overflow_checks, parsed, duration, start, now,
                   exit_status, sigints, handler_runs, sleeps_since_set, last_load>>

\* A call of signal::should_exit()
CallShouldExit ==
    /\ pc = "client"
    /\ last_load' = <<should_exit>>
    /\ UNCHANGED <<registrations, entry_flag, slept, pc,
                   args, overflow_checks, parsed, duration, handler, SHOULD_EXIT, start, now,
                   exit_status, sigints, handler_runs, sleeps_since_set>>

SignalNext ==
    \/ CallRegister
    \/ CallShouldExit
    \/ SigintDefault
    \/ sigint_handler

SignalSpec == SignalInit /\ [][SignalNext]_vars

----------------------------------------------------------------------------
(* The main thread under a fair scheduler *)

\* Argument lists of runs short enough to end within MaxTime, and of runs
\* that are not.
LoopArgLists ==
    { <<Timeterm>>,
      <<Timeterm, <<"0">> >>,
      <<Timeterm, <<"1">> >>,
      <<Timeterm, <<"2">> >>,
      <<Timeterm, <<"0", ":", "0", "1">> >>,
      <<Timeterm, <<"0", ":", "0", "0", ":", "0", "2">> >>,
      <<Timeterm, <<"3", "0">> >>,
      <<Timeterm, <<"a", "b", "c">> >>,
      <<Timeterm, <<"7", "1", "5", "8", "2", "7", "8", "9", ":", "0">> >> }

FairInit == InitWith(LoopArgLists, "greet")

\* The steps of the main thread other than ParseArgs; the SIGINT deliveries
\* are the rest of Next.
MainStep ==
    \/ Greet
    \/ register_sigint_handler
    \/ Start
    \/ CheckFlag
    \/ CheckTime
    \/ Sleep
    \/ Exit

\* Weak fairness of ParseArgs, written without ENABLED: ParseArgs is enabled
\* exactly when pc = "parse", and every ParseArgs step leaves "parse".
ParseArgsFair == []<>(pc # "parse")

\* The main thread is the only thread of the process and is always
\* runnable: every sleep returns and the thread goes on to its next step.
FairSpec == FairInit /\ [][Next]_vars /\ WF_vars(MainStep) /\ ParseArgsFair

----------------------------------------------------------------------------
(* Reference notions used to state the properties *)

\* The loop has been left by `break`.
Stopped == pc \in {"stopped", "exited"}

\* The loop is being executed.
Running == pc \in {"check", "check_time", "sleep"}

\* The call of parse_args has been made.
ParseDone == parsed.kind # "Unset"

\* The time specification of a two-element argument list.
TimeSpec == args[2]

IsDigits(s) == Len(s) > 0 /\ \A i \in 1..Len(s) : s[i] \in Digits

\* The number a digit string denotes (at most 12 digits).
RECURSIVE DecValue(_)
DecValue(s) ==
    IF s = <<>> THEN Lit(0)
    ELSE WideAdd(WideMul(DecValue(SubSeq(s, 1, Len(s) - 1)), 10),
                 Lit(DigitVal(s[Len(s)])))

\* A digit string denoting a value of the u32 range.
IsU32Field(s) == IsDigits(s) /\ Leq(DecValue(s), U32Max)

\* mm*60 + ss, or hh*3600 + mm*60 + ss, of two or three u32 fields.
Total(f) ==
    IF Len(f) = 2
    THEN WideAdd(WideMul(DecValue(f[1]), 60), DecValue(f[2]))
    ELSE WideAdd(WideAdd(WideMul(DecValue(f[1]), 3600), WideMul(DecValue(f[2]), 60)),
                 DecValue(f[3]))

\* A specification of two or three fields, each a digit string of the u32 range.
IsFieldSpec(t) ==
    /\ Len(Split(t)) \in {2, 3}
    /\ \A i \in 1..Len(Split(t)) : IsU32Field(Split(t)[i])

\* A malformed specification: three or more colons, or a field that is not a
\* non-empty string of decimal digits.
Malformed(t) ==
    \/ Len(Split(t)) >= 4
    \/ \E i \in 1..Len(Split(t)) : ~IsDigits(Split(t)[i])

Default == Some(Lit(600))

\* Fewer than `duration` seconds have passed since `start`: the clock counts
\* tenths of a second.
BeforeDeadline == ~Leq(WideMul(duration.val, 10), Lit(now - start))

----------------------------------------------------------------------------
(* Properties *)

\* C1: every run that leaves the loop by `break` (time elapsed or flag
\* observed) can only go on to return from main, and the process then has
\* the exit status 0; no stopped state has another status.
C1_StoppedExitsZero ==
    /\ [](pc = "stopped" => exit_status = <<>>)
    /\ [](pc = "exited" => exit_status = <<0>>)
    /\ [][pc = "stopped" => pc' \in {"stopped", "exited"}]_vars

\* C1 witness: the process has exited after the loop observed the flag before
\* the time was up.
C1_Witness ==
    /\ pc = "exited"
    /\ exit_status = <<0>>
    /\ last_load = <<TRUE>>
    /\ ~TimeUp

\* C2 as stated: whenever a SIGINT is delivered, the default action is never
\* what ends the process.
C2_NeverKilled == pc # "killed"

\* C2 amended: a SIGINT delivered once register_sigint_handler has installed
\* the handler runs the handler (the flag becomes true, the main thread keeps
\* its position), the next check of the loop then stops it, and the process
\* is never ended by the signal and ends only with exit status 0.
C2_CaughtOnceInstalled ==
    /\ [][(sigints' # sigints /\ pc \notin {"greet", "parse", "register"})
            => (SHOULD_EXIT' /\ handler_runs' = handler_runs + 1 /\ pc' = pc)]_vars
    /\ [][(handler_runs > 0 /\ pc = "check" /\ pc' # pc) => pc' = "stopped"]_vars
    /\ [](handler_runs > 0 => (pc # "killed" /\ exit_status \in {<<>>, <<0>>}))

\* C2 witness: a SIGINT was caught while the loop was asleep and the process
\* has exited.
C2_Witness ==
    /\ handler_runs = 1
    /\ sleeps_since_set = 1
    /\ pc = "exited"
    /\ exit_status = <<0>>

\* C3: once the flag is true the loop performs at most one more sleep, and
\* the check that follows finds the flag and stops the loop.
C3_BoundedResponse ==
    /\ [](sleeps_since_set <= 1)
    /\ [][(SHOULD_EXIT /\ pc = "check" /\ pc' # pc) => pc' = "stopped"]_vars

\* C3 witness: the flag was set between the loop's check and its sleep, one
\* sleep followed and the loop stopped before the time was up.
C3_Witness ==
    /\ sleeps_since_set = 1
    /\ pc = "stopped"
    /\ last_load = <<TRUE>>
    /\ ~TimeUp

\* C4: with no interrupt delivered, at every moment after the start instant
\* at which fewer than `duration` whole seconds have elapsed, the loop is
\* still running.
C4_NoEarlyStop ==
    (sigints = 0 /\ (Running \/ Stopped) /\ BeforeDeadline) => Running

\* C4 witness: one second into a two-second run, no interrupt, still running.
C4_Witness ==
    /\ sigints = 0
    /\ duration = Some(Lit(2))
    /\ now - start = 19
    /\ BeforeDeadline
    /\ pc = "check"

\* C5: the flag is false until the handler has run and true ever after, it
\* never goes back to false, and every should_exit() made after a run of the
\* handler returns true.
C5_FlagMonotone ==
    /\ [](SHOULD_EXIT <=> handler_runs > 0)
    /\ [][SHOULD_EXIT => SHOULD_EXIT']_vars
    /\ [][(handler_runs > 0 /\ pc = "check" /\ pc' # pc) => last_load' = <<TRUE>>]_vars

\* C5 witness: two interrupts were delivered and a later read returned true.
C5_Witness ==
    /\ handler_runs = 2
    /\ SHOULD_EXIT
    /\ last_load = <<TRUE>>
    /\ pc = "stopped"

\* C6 as stated: an mm:ss or hh:mm:ss specification whose fields are u32
\* values and whose total exceeds 2^32-1 fails to parse, and the duration
\* main uses is the default 600.
C6_OverflowYieldsDefault ==
    (/\ Len(args) = 2
     /\ IsFieldSpec(TimeSpec)
     /\ ~Leq(Total(Split(TimeSpec)), U32Max)
     /\ ParseDone)
    => (parsed = None /\ duration = Default)

\* C7 as stated: a malformed specification (three or more colons, an empty
\* field, a field that is not a plain string of decimal digits) fails to
\* parse, and the duration main uses is the default 600.
C7_MalformedYieldsDefault ==
    (Len(args) = 2 /\ Malformed(TimeSpec) /\ ParseDone)
    => (parsed = None /\ duration = Default)

\* C8: a specification of two or three digit-string fields whose total
\* mm*60+ss or hh*3600+mm*60+ss is at most 2^32-1 parses to that total,
\* whatever the size of the single fields.
C8_FieldsSum ==
    (/\ Len(args) = 2
     /\ IsFieldSpec(TimeSpec)
     /\ Leq(Total(Split(TimeSpec)), U32Max)
     /\ ParseDone)
    => (/\ parsed = Some(Total(Split(TimeSpec)))
        /\ duration = Some(Total(Split(TimeSpec))))

\* C8 witness: "0:90", a seconds field above 59, has been parsed to 90.
C8_Witness ==
    /\ args = <<Timeterm, <<"0", ":", "9", "0">> >>
    /\ parsed = Some(Lit(90))
    /\ duration = Some(Lit(90))

\* C9: a colon-free digit string parses to the number it denotes when that
\* is at most 2^32-1, leading zeros or not, and fails to parse otherwise.
C9_SecondsOnly ==
    (/\ Len(args) = 2
     /\ ~Contains(TimeSpec, ":")
     /\ IsDigits(TimeSpec)
     /\ ParseDone)
    => IF Leq(DecValue(TimeSpec), U32Max)
       THEN parsed = Some(DecValue(TimeSpec)) /\ duration = parsed
       ELSE parsed = None

\* C9 witness: "04294967295" has been parsed to u32::MAX.
C9_Witness ==
    /\ args = <<Timeterm, <<"0", "4", "2", "9", "4", "9", "6", "7", "2", "9", "5">> >>
    /\ parsed = Some(U32Max)

\* C10: an argument list of one element parses to 600, whatever the
\* program name is.
C10_ProgramNameOnly ==
    (Len(args) = 1 /\ ParseDone) => parsed = Default

\* C10 witness: the only argument is the program name "1:36" and 600 came back.
C10_Witness ==
    /\ args = << <<"1", ":", "3", "6">> >>
    /\ parsed = Default
    /\ pc = "register"

\* C11 as stated: an argument list of a length other than 1 and 2 makes
\* parse_args return None and main use 600; the loop never runs without a
\* duration; and no argument list makes the process abort.
C11_DurationAlwaysDefined ==
    /\ (Len(args) \notin {1, 2} /\ ParseDone) => (parsed = None /\ duration = Default)
    /\ (Running \/ Stopped) => duration.kind = "Some"
    /\ pc # "panicked"

\* The deadline of the run lies within the time the clock can reach.
DeadlineWithinClock == Leq(WideMul(duration.val, 10), Lit(MaxTime - start))

\* C12: with every sleep advancing the clock, a running loop whose deadline
\* the clock can reach is eventually stopped, interrupt or not; the loop goes
\* to sleep only while fewer than `duration` seconds have elapsed, and the
\* first time check made with `duration` or more seconds elapsed stops it.
C12_Termination ==
    /\ (Running /\ DeadlineWithinClock) ~> Stopped
    /\ [](pc = "sleep" => BeforeDeadline)
    /\ [][(pc = "check_time" /\ ~BeforeDeadline /\ pc' # pc) => pc' = "stopped"]_vars

\* C12 witness: a two-second run without an interrupt was stopped by the
\* check that followed the sleep during which the deadline passed.
C12_Witness ==
    /\ sigints = 0
    /\ duration = Some(Lit(2))
    /\ now - start = 21
    /\ pc = "stopped"

\* C13: a run of the handler sets the flag to true in one step and changes
\* nothing else of the program's state (duration, start instant, installed
\* handler, position of the main thread, clock, exit status); it can run at
\* every position of the main thread, and the loop is never left without an
\* enabled step.
C13_HandlerFrame ==
    /\ [][handler_runs' # handler_runs
            => (/\ SHOULD_EXIT' = TRUE
                /\ handler_runs' = handler_runs + 1
                /\ UNCHANGED <<args, parsed, duration, start, handler, pc, now,
                               exit_status, registrations>>)]_vars
    /\ []((handler = Installed /\ Alive /\ sigints < MaxSignals) => ENABLED sigint_handler)
    /\ []((Running /\ now < MaxTime) => ENABLED (CheckFlag \/ CheckTime \/ Sleep))

\* C13 witness: the handler has run between the loop's check and its sleep,
\* and the main thread is where it was.
C13_Witness ==
    /\ handler_runs = 1
    /\ SHOULD_EXIT
    /\ pc = "sleep"
    /\ slept
    /\ sleeps_since_set = 0

\* C14: every call of register_sigint_handler, the first as well as a
\* repeated one, returns to its caller, leaves sigint_handler installed and
\* leaves the flag as it was, set or not.
C14_RegisterIdempotent ==
    /\ [][registrations' # registrations
            => (/\ handler' = Installed
                /\ SHOULD_EXIT' = SHOULD_EXIT
                /\ pc' = pc
                /\ UNCHANGED <<exit_status, handler_runs, sigints>>)]_vars
    /\ []((registrations # <<>> /\ Alive) => handler = Installed)

\* C14 witness: three calls, the last two with the flag already set, and the
\* flag is still set.
C14_Witness ==
    /\ registrations = <<FALSE, TRUE, TRUE>>
    /\ SHOULD_EXIT
    /\ handler = Installed
    /\ pc = "client"

\* C15: when the duration is 0, or the flag is already true when the loop is
\* entered, the loop never reaches its sleep and is stopped with no sleep
\* performed.
C15_CheckBeforeSleep ==
    ((Running \/ Stopped) /\ (duration = Some(Lit(0)) \/ entry_flag = <<TRUE>>))
    => (~slept /\ pc # "sleep" /\ now = start)

\* C15 witness: a ten-minute run entered the loop with the flag set and was
\* stopped without a sleep.
C15_Witness ==
    /\ pc = "stopped"
    /\ entry_flag = <<TRUE>>
    /\ duration = Default
    /\ ~slept

=============================================================================
